---- MODULE Spec2Model ----
(***************************************************************************)
(* Real Estate Multi-Dashboard (src/app.py and src/app2.py).               *)
(*                                                                         *)
(* Each script is a Streamlit page: every user interaction re-runs the     *)
(* whole script from the top with the current widget values.  The model    *)
(* keeps the session (which script is deployed, the files on disk, the     *)
(* st.cache_data cache, the widget values) and the tables computed by the  *)
(* last run.  One action is one interaction followed by the complete       *)
(* re-run.                                                                 *)
(*                                                                         *)
(* Numbers: every numeric cell and slider value is an exact decimal with   *)
(* three decimal places, held as an integer count of thousandths           *)
(* (M(100) is 100.000).  Quotients (means, ratios) are exact fractions.    *)
(***************************************************************************)
EXTENDS Integers, Sequences, FiniteSets, TLC

VARIABLES
    variant,            \* "app" (src/app.py) or "app2" (src/app2.py): the deployed script
    disk,               \* path -> table on disk (the two CSV files)
    cache,              \* st.cache_data: path -> table already read
    reads,              \* path -> number of pd.read_csv calls so far
    dashboard,          \* the sidebar radio
    controls,           \* the options and slider bounds the last run gave the widgets
    widgets,            \* the values of the rendered dashboard's filter widgets
    filtered_data,      \* filtered_prop_data / filtered_plot_data of the last run
    location_summary,   \* prop_location_summary / plot_location_summary
    top_regions,        \* top_regions / top_plot_regions (app.py)
    bottom_regions,     \* bottom_regions / bottom_plot_regions (app.py)
    selected_data,      \* selected_data / selected_plot_data (app.py)
    comparison_data,    \* comparison_data / comparison_plot_data (app.py)
    page                \* what the last run showed: messages, KPIs, charts, table, export

vars == <<variant, disk, cache, reads, dashboard, controls, widgets, filtered_data,
          location_summary, top_regions, bottom_regions, selected_data,
          comparison_data, page>>

-----------------------------------------------------------------------------
(* Bounds of the model.                                                    *)

\* Longest window of the base listing that is a file on disk.
MaxRows == 3

\* How many elementary changes (one option toggled, one slider handle moved by one
\* tick) the widget values are away from their defaults.
MaxChanged == 2

-----------------------------------------------------------------------------
(* Numbers.                                                                *)

M(n) == n * 1000

Abs(x) == IF x < 0 THEN -x ELSE x

\* Python int(x): truncation toward zero.
PyInt(x) == IF x >= 0 THEN (x \div 1000) * 1000 ELSE -(((-x) \div 1000) * 1000)

\* Python round(x, 2): the nearest multiple of 0.01.
Round2(x) ==
    LET a == Abs(x)
        q == (a + 5) \div 10
        r == q * 10
    IN IF x >= 0 THEN r ELSE -r

RECURSIVE Gcd(_, _)
Gcd(a, b) == IF b = 0 THEN a ELSE Gcd(b, a % b)

NaN == [num |-> 0, den |-> 0]

\* Float division a / b of pandas columns: an exact fraction in lowest terms;
\* x/0 is +-inf (den 0, num the sign) and 0/0 is NaN, never an exception.
Div(a, b) ==
    IF b = 0 THEN [num |-> IF a > 0 THEN 1 ELSE IF a < 0 THEN -1 ELSE 0, den |-> 0]
    ELSE LET g == Gcd(Abs(a), Abs(b))
             s == IF b < 0 THEN -1 ELSE 1
         IN [num |-> s * (a \div g), den |-> s * (b \div g)]

\* a < b on finite fractions (denominators positive).
FracLess(a, b) == a.num * b.den < b.num * a.den

-----------------------------------------------------------------------------
(* Sequences and columns.                                                  *)

Range(s) == {s[i] : i \in DOMAIN s}

Column(df, col) == [i \in DOMAIN df |-> df[i][col]]

RECURSIVE SumSeq(_)
SumSeq(s) == IF s = <<>> THEN 0 ELSE Head(s) + SumSeq(Tail(s))

\* Series.sum(): 0 on an empty column.
Sum(df, col) == SumSeq(Column(df, col))

\* Series.mean(): NaN on an empty column.
Mean(df, col) == IF df = <<>> THEN NaN ELSE Div(Sum(df, col), M(Len(df)))

RECURSIVE SeqMin(_)
SeqMin(s) ==
    IF Len(s) = 1 THEN s[1]
    ELSE LET m == SeqMin(Tail(s)) IN IF s[1] <= m THEN s[1] ELSE m

RECURSIVE SeqMax(_)
SeqMax(s) ==
    IF Len(s) = 1 THEN s[1]
    ELSE LET m == SeqMax(Tail(s)) IN IF s[1] >= m THEN s[1] ELSE m

\* Series.min() / Series.max() of a non-empty column.
ColMin(df, col) == SeqMin(Column(df, col))
ColMax(df, col) == SeqMax(Column(df, col))

Reverse(s) == [i \in DOMAIN s |-> s[Len(s) + 1 - i]]

\* DataFrame.head(n).
HeadN(df, n) == SubSeq(df, 1, IF Len(df) < n THEN Len(df) ELSE n)

-----------------------------------------------------------------------------
(* The two scripts, the two dashboards and the columns each one reads.     *)

App  == "app"
App2 == "app2"
Variants == {App, App2}

Property == "Property Data Dashboard"
Plot     == "Plot Data Dashboard"
Dashboards == {Property, Plot}

property_file_path == "Updated_Cleaned_Dataset (1).csv"
plot_file_path     == "standardized_locations_dataset.csv"
Paths == {property_file_path, plot_file_path}

FilePath(d) == IF d = Property THEN property_file_path ELSE plot_file_path

\* The column each filter, group-by and aggregate reads ("Price per cent" is
\* written Price_per_cent).
LocCol(d)   == IF d = Property THEN "Standardized_Location_Name" ELSE "Location"
CatCol(d)   == IF d = Property THEN "Plot__Beds" ELSE "density"
PriceCol(d) == IF d = Property THEN "Plot__Price" ELSE "Price"
AreaCol(v, d) ==
    IF d = Plot THEN "Area"
    ELSE IF v = App THEN "Plot__Area_Cents" ELSE "Plot__Area"
ExtraCol(d) == IF d = Property THEN "Build__Area" ELSE "Price_per_cent"
RatioCol(d) == IF d = Property THEN "Build_to_Plot_Ratio" ELSE "price_to_price_per_cent_ratio"

plot_distance_columns ==
    << "distance_to_technopark", "distance_to_agasthyamalai_hills",
       "distance_to_ponmudi_hills", "distance_to_nearest_beach",
       "distance_to_nearest_lake" >>

\* The step= argument of each slider.
PriceStep == M(10000)
AreaStep(v) == IF v = App THEN 100 ELSE M(1)
ExtraStep(v, d) == IF d = Plot THEN M(1000) ELSE IF v = App THEN M(50) ELSE M(1)
RatioStep == 100
DistanceStep == M(1)

\* How many rows head() keeps of the ranking.
TopN == 5

-----------------------------------------------------------------------------
(* The files on disk: short windows of a base listing of eight plots, the *)
(* listing with one plot per location, and one with a plot of area 0.      *)

\* Location names in lexical order (the order of sorted() and of groupby).
LocNames == << "A", "B", "C", "D", "E", "F" >>

LocRank(l) == CHOOSE i \in DOMAIN LocNames : LocNames[i] = l

Base ==
    << [loc |-> "A", beds |-> 2, density |-> "Low",  price |-> M(100),   area |-> M(10),
        sqft |-> M(4356), build |-> M(1000), ratio |-> 500, ppc |-> M(10),   dist |-> M(5),
        url |-> "u1"],
       [loc |-> "A", beds |-> 3, density |-> "Low",  price |-> M(300),   area |-> M(30),
        sqft |-> M(4356), build |-> M(1000), ratio |-> 500, ppc |-> M(10),   dist |-> M(5),
        url |-> "u2"],
       [loc |-> "B", beds |-> 2, density |-> "High", price |-> M(1000),  area |-> M(10),
        sqft |-> M(4356), build |-> M(1000), ratio |-> 500, ppc |-> M(100),  dist |-> M(5),
        url |-> "u3"],
       [loc |-> "B", beds |-> 3, density |-> "High", price |-> M(10100), area |-> 10100,
        sqft |-> M(4357), build |-> M(1050), ratio |-> 454, ppc |-> M(1000), dist |-> M(6),
        url |-> "u4"],
       [loc |-> "C", beds |-> 2, density |-> "Low",  price |-> M(500),   area |-> M(10),
        sqft |-> M(4356), build |-> M(1000), ratio |-> 500, ppc |-> M(50),   dist |-> M(5),
        url |-> "u5"],
       [loc |-> "D", beds |-> 2, density |-> "Low",  price |-> M(250),   area |-> M(10),
        sqft |-> M(4356), build |-> M(1000), ratio |-> 600, ppc |-> M(25),   dist |-> M(5),
        url |-> "u6"],
       [loc |-> "E", beds |-> 2, density |-> "Low",  price |-> 300500,   area |-> M(10),
        sqft |-> M(4356), build |-> M(1000), ratio |-> 500, ppc |-> 30050,   dist |-> M(5),
        url |-> "u7"],
       [loc |-> "F", beds |-> 2, density |-> "Low",  price |-> M(500),   area |-> M(10),
        sqft |-> M(4356), build |-> M(1000), ratio |-> 500, ppc |-> M(50),   dist |-> M(5),
        url |-> "u8"] >>

\* The columns every property file must have, in the order of the file.
property_required_columns ==
    << "Plot__url", "Plot__Price", "Plot__Beds", "Build__Area", "Plot__Area",
       "Plot__DESC", "Plot__Area_Cents", "Price_per_sqft", "Price_per_cent",
       "Total_Area", "Build_to_Plot_Ratio", "Standardized_Location_Name" >>

\* The columns every plot file must have, in the order of the file.
plot_required_columns ==
    << "Url", "Price", "Area", "Price_per_cent", "Location", "Latitude",
       "Longitude", "distance_to_technopark", "distance_to_agasthyamalai_hills",
       "distance_to_ponmudi_hills", "distance_to_nearest_beach",
       "distance_to_nearest_lake", "density", "price_to_price_per_cent_ratio",
       "beach_proximity", "lake_proximity" >>

RequiredColumns(d) ==
    IF d = Property THEN property_required_columns ELSE plot_required_columns

\* The columns that hold text; every other column holds numbers.
TextColumns ==
    { "Plot__url", "Plot__DESC", "Standardized_Location_Name", "Url", "Location",
      "density", "beach_proximity", "lake_proximity", "Price_Category" }

\* A row of the property file.
PropRow(b) ==
    [Standardized_Location_Name |-> b.loc, Plot__Beds |-> b.beds, Plot__Price |-> b.price,
     Plot__Area_Cents |-> b.area, Plot__Area |-> b.sqft, Build__Area |-> b.build,
     Build_to_Plot_Ratio |-> b.ratio, Price_per_cent |-> b.ppc,
     Plot__url |-> b.url, Plot__DESC |-> "house", Price_per_sqft |-> M(1),
     Total_Area |-> b.sqft]

\* A row of the plot file.
PlotRow(b) ==
    [Location |-> b.loc, density |-> b.density, Price |-> b.price, Area |-> b.area,
     Price_per_cent |-> b.ppc, price_to_price_per_cent_ratio |-> b.ratio,
     distance_to_technopark |-> b.dist, distance_to_agasthyamalai_hills |-> M(40),
     distance_to_ponmudi_hills |-> M(30), distance_to_nearest_beach |-> M(2),
     distance_to_nearest_lake |-> M(3),
     Url |-> b.url, Latitude |-> M(8), Longitude |-> M(76),
     beach_proximity |-> "near", lake_proximity |-> "near"]

\* The non-empty windows Base[i..j] of at most MaxRows rows.
Windows ==
    { SubSeq(Base, i, j) : i \in 1..Len(Base), j \in 1..Len(Base) } \ {<<>>}

\* One listing per location: the first listing of each.
Wide ==
    LET First(b) == b = Base[CHOOSE i \in DOMAIN Base :
                                 /\ Base[i].loc = b.loc
                                 /\ \A j \in 1..(i - 1) : Base[j].loc # b.loc]
    IN SelectSeq(Base, First)

\* The two files that hold the listings t.
FilesOf(t) ==
    [p \in Paths |-> IF p = property_file_path
                     THEN [k \in DOMAIN t |-> PropRow(t[k])]
                     ELSE [k \in DOMAIN t |-> PlotRow(t[k])]]

\* A listing recorded with area 0 next to an ordinary one.
ZeroArea ==
    << [loc |-> "A", beds |-> 2, density |-> "Low", price |-> M(100), area |-> 0,
        sqft |-> 0, build |-> M(1000), ratio |-> 0, ppc |-> 0, dist |-> M(5),
        url |-> "u9"],
       Base[3] >>

Files ==
    { FilesOf(t) : t \in {u \in Windows : Len(u) <= MaxRows} \cup {Wide, ZeroArea} }

\* A table without the columns cols.
WithoutColumns(df, cols) ==
    [k \in DOMAIN df |-> [c \in (DOMAIN df[k]) \ cols |-> df[k][c]]]

\* Files of which some lack required columns: every combination of a property
\* file and a plot file, each complete or short of one or two columns.
MalformedFiles ==
    { [p \in Paths |-> IF p = property_file_path
                       THEN WithoutColumns(FilesOf(t)[p], a)
                       ELSE WithoutColumns(FilesOf(t)[p], b)]
      : t \in { SubSeq(Base, 3, 4), SubSeq(Base, 5, 7) },
        a \in { {}, {"Plot__Beds"}, {"Total_Area", "Plot__url"} },
        b \in { {}, {"density"}, {"lake_proximity", "Latitude"} } }

-----------------------------------------------------------------------------
(* Widgets.                                                                *)

\* sorted(data[col].unique()): the options of a multiselect, as a set.
Options(data, col) == Range(Column(data, col))

\* A slider offers min_value, min_value + step, ... up to max_value, and
\* max_value itself.  GridTop is the highest position below max_value.
GridTop(b, step) ==
    IF (b[2] - b[1]) % step = 0 THEN b[2] - step ELSE b[1] + ((b[2] - b[1]) \div step) * step

\* The position of a handle, counted in ticks from min_value.
TickIndex(x, b, step) ==
    IF x = b[2] THEN (b[2] - b[1] + step - 1) \div step ELSE (x - b[1]) \div step

\* Moves of a slider whose lower handle may be dragged past the upper one.
MovesCrossing(r, b, step) ==
    LET up(x)   == IF x + step <= b[2] THEN x + step ELSE b[2]
        down(x) == IF x = b[2] THEN GridTop(b, step) ELSE x - step
    IN    { <<up(r[1]), r[2]>>   : x \in { y \in {r[1]} : y < b[2] } }
     \cup { <<down(r[1]), r[2]>> : x \in { y \in {r[1]} : y > b[1] } }
     \cup { <<r[1], up(r[2])>>   : x \in { y \in {r[2]} : y < b[2] } }
     \cup { <<r[1], down(r[2])>> : x \in { y \in {r[2]} : y > r[1] } }

\* The values a range slider <<lo, hi>> takes when one handle is dragged to the
\* neighbouring tick; the lower handle never passes the upper one.
Moves(r, b, step) ==
    LET up(x)   == IF x + step <= b[2] THEN x + step ELSE b[2]
        down(x) == IF x = b[2] THEN GridTop(b, step) ELSE x - step
    IN    { <<up(r[1]), r[2]>>   : x \in { y \in {r[1]} : y < r[2] } }
     \cup { <<down(r[1]), r[2]>> : x \in { y \in {r[1]} : y > b[1] } }
     \cup { <<r[1], up(r[2])>>   : x \in { y \in {r[2]} : y < b[2] } }
     \cup { <<r[1], down(r[2])>> : x \in { y \in {r[2]} : y > r[1] } }

\* How many ticks the two handles are away from the default <<min_value, max_value>>.
Moved(r, b, step) ==
    TickIndex(r[1], b, step) + (TickIndex(b[2], b, step) - TickIndex(r[2], b, step))

\* min_value and max_value of each slider, computed from the loaded table.
PriceBounds(d, data) ==
    << PyInt(ColMin(data, PriceCol(d))), PyInt(ColMax(data, PriceCol(d))) >>
AreaBounds(v, d, data) ==
    << ColMin(data, AreaCol(v, d)), ColMax(data, AreaCol(v, d)) >>
ExtraBounds(d, data) ==
    << ColMin(data, ExtraCol(d)), ColMax(data, ExtraCol(d)) >>
RatioBounds(d, data) ==
    << 0, Round2(ColMax(data, RatioCol(d))) >>
DistanceBounds(data, col) ==
    << ColMin(data, col), ColMax(data, col) >>

\* What one run passes to the widgets: the options of the two multiselects and
\* <<min_value, max_value>> of every slider.
Controls(v, d, data) ==
    [ locations  |-> Options(data, LocCol(d)),
      categories |-> Options(data, CatCol(d)),
      price      |-> PriceBounds(d, data),
      area       |-> AreaBounds(v, d, data),
      extra      |-> ExtraBounds(d, data),
      ratio      |-> RatioBounds(d, data),
      distance   |->
          IF d = Plot
          THEN [i \in DOMAIN plot_distance_columns |->
                    DistanceBounds(data, plot_distance_columns[i])]
          ELSE <<>> ]

\* The widget values of a first run: every control at its default=/value=.
Defaults(v, c) ==
    [ selected_locations |-> IF v = App THEN {} ELSE c.locations,
      selected_category  |-> c.categories,
      selected_price     |-> c.price,
      selected_area      |-> c.area,
      selected_extra     |-> c.extra,
      selected_ratio     |-> c.ratio,
      distance_filters   |-> c.distance ]

-----------------------------------------------------------------------------
(* Filter Engine.                                                          *)

\* df[df[col].isin(selected)]
Isin(df, col, selected) ==
    LET Keep(r) == r[col] \in selected IN SelectSeq(df, Keep)

\* Between with the upper comparison strict (< for <=).
BetweenStrictUpper(df, col, range) ==
    LET Keep(r) == r[col] >= range[1] /\ r[col] < range[2] IN SelectSeq(df, Keep)

\* df[(df[col] >= lo) & (df[col] <= hi)]
Between(df, col, range) ==
    LET Keep(r) == r[col] >= range[1] /\ r[col] <= range[2] IN SelectSeq(df, Keep)

\* The distance loop: one Between per column of plot_distance_columns, in order.
RECURSIVE DistanceLoop(_, _, _)
DistanceLoop(df, filters, i) ==
    IF i > Len(filters) THEN df
    ELSE DistanceLoop(Between(df, plot_distance_columns[i], filters[i]), filters, i + 1)

\* FilterChain without the branch for an empty location selection.
FilterChainSelectNone(d, data, w) ==
    LET f0 == Isin(data, LocCol(d), w.selected_locations)
        f1 == IF w.selected_category # {} THEN Isin(f0, CatCol(d), w.selected_category)
              ELSE f0
        f2 == Between(f1, PriceCol(d), w.selected_price)
        f3 == Between(f2, AreaCol(App, d), w.selected_area)
        f4 == Between(f3, ExtraCol(d), w.selected_extra)
        f5 == Between(f4, RatioCol(d), w.selected_ratio)
    IN IF d = Plot THEN DistanceLoop(f5, w.distance_filters, 1) ELSE f5

\* FilterChain that does not restrict the rows to the selected locations.
FilterChainNoLocation(d, data, w) ==
    LET f1 == IF w.selected_category # {} THEN Isin(data, CatCol(d), w.selected_category)
              ELSE data
        f2 == Between(f1, PriceCol(d), w.selected_price)
        f3 == Between(f2, AreaCol(App, d), w.selected_area)
        f4 == Between(f3, ExtraCol(d), w.selected_extra)
        f5 == Between(f4, RatioCol(d), w.selected_ratio)
    IN IF d = Plot THEN DistanceLoop(f5, w.distance_filters, 1) ELSE f5

\* FilterChain with the price filter applied to the loaded table instead of the
\* result of the filters before it.
FilterChainRestart(d, data, w) ==
    LET f2 == Between(data, PriceCol(d), w.selected_price)
        f3 == Between(f2, AreaCol(App, d), w.selected_area)
        f4 == Between(f3, ExtraCol(d), w.selected_extra)
        f5 == Between(f4, RatioCol(d), w.selected_ratio)
    IN IF d = Plot THEN DistanceLoop(f5, w.distance_filters, 1) ELSE f5

\* FilterChain with the category filter concatenated to the location filter's
\* result instead of applied to it.
FilterChainConcat(d, data, w) ==
    LET f0 == IF w.selected_locations = {} THEN data
              ELSE Isin(data, LocCol(d), w.selected_locations)
        f1 == IF w.selected_category # {}
              THEN f0 \o Isin(f0, CatCol(d), w.selected_category)
              ELSE f0
        f2 == Between(f1, PriceCol(d), w.selected_price)
        f3 == Between(f2, AreaCol(App, d), w.selected_area)
        f4 == Between(f3, ExtraCol(d), w.selected_extra)
        f5 == Between(f4, RatioCol(d), w.selected_ratio)
    IN IF d = Plot THEN DistanceLoop(f5, w.distance_filters, 1) ELSE f5

\* app.py: the chain of filters, each applied to the result of the one before.
FilterChain(d, data, w) ==
    LET f0 == IF w.selected_locations = {} THEN data
              ELSE Isin(data, LocCol(d), w.selected_locations)
        f1 == IF w.selected_category # {} THEN Isin(f0, CatCol(d), w.selected_category)
              ELSE f0
        f2 == Between(f1, PriceCol(d), w.selected_price)
        f3 == Between(f2, AreaCol(App, d), w.selected_area)
        f4 == Between(f3, ExtraCol(d), w.selected_extra)
        f5 == Between(f4, RatioCol(d), w.selected_ratio)
    IN IF d = Plot THEN DistanceLoop(f5, w.distance_filters, 1) ELSE f5

\* FilterMask with app.py's rule for an empty multiselect (no constraint).
FilterMaskSelectAll(d, data, w) ==
    LET Keep(r) ==
            /\ w.selected_locations = {} \/ r[LocCol(d)] \in w.selected_locations
            /\ w.selected_category = {} \/ r[CatCol(d)] \in w.selected_category
            /\ r[PriceCol(d)] >= w.selected_price[1]
            /\ r[PriceCol(d)] <= w.selected_price[2]
            /\ r[AreaCol(App2, d)] >= w.selected_area[1]
            /\ r[AreaCol(App2, d)] <= w.selected_area[2]
            /\ r[ExtraCol(d)] >= w.selected_extra[1]
            /\ r[ExtraCol(d)] <= w.selected_extra[2]
            /\ r[RatioCol(d)] >= w.selected_ratio[1]
            /\ r[RatioCol(d)] <= w.selected_ratio[2]
        masked == SelectSeq(data, Keep)
    IN IF d = Plot THEN DistanceLoop(masked, w.distance_filters, 1) ELSE masked

\* app2.py: one boolean mask, the conjunction of all the predicates, then (plot
\* dashboard) the distance loop.
FilterMask(d, data, w) ==
    LET Keep(r) ==
            /\ r[LocCol(d)] \in w.selected_locations
            /\ r[CatCol(d)] \in w.selected_category
            /\ r[PriceCol(d)] >= w.selected_price[1]
            /\ r[PriceCol(d)] <= w.selected_price[2]
            /\ r[AreaCol(App2, d)] >= w.selected_area[1]
            /\ r[AreaCol(App2, d)] <= w.selected_area[2]
            /\ r[ExtraCol(d)] >= w.selected_extra[1]
            /\ r[ExtraCol(d)] <= w.selected_extra[2]
            /\ r[RatioCol(d)] >= w.selected_ratio[1]
            /\ r[RatioCol(d)] <= w.selected_ratio[2]
        masked == SelectSeq(data, Keep)
    IN IF d = Plot THEN DistanceLoop(masked, w.distance_filters, 1) ELSE masked

Filter(v, d, data, w) ==
    IF v = App THEN FilterChain(d, data, w) ELSE FilterMask(d, data, w)

-----------------------------------------------------------------------------
(* Aggregator.                                                             *)

\* Group without the group-by: every row of the table in every group.
GroupAll(df, d, key) == df

\* The rows of one group.
Group(df, d, key) == Isin(df, LocCol(d), {key})

\* Group keys cut to the first key.
GroupKeysFirst(df, d) ==
    LET Present(l) == l \in Options(df, LocCol(d))
        keys == SelectSeq(LocNames, Present)
    IN IF keys = <<>> THEN <<>> ELSE <<keys[1]>>

\* The group keys of groupby(...): the distinct locations, sorted.
GroupKeys(df, d) ==
    LET Present(l) == l \in Options(df, LocCol(d)) IN SelectSeq(LocNames, Present)

\* Series.median() of a non-empty column: the middle value, or the mean of the
\* two middle values.
Median(df, col) ==
    LET vals == Column(df, col)
        n == Len(vals)
        \* the k-th smallest value
        Kth(k) == CHOOSE x \in Range(vals) :
                      /\ Cardinality({i \in 1..n : vals[i] < x}) < k
                      /\ Cardinality({i \in 1..n : vals[i] <= x}) >= k
    IN IF n % 2 = 1 THEN Div(Kth((n + 1) \div 2), M(1))
       ELSE Div(Kth(n \div 2) + Kth(n \div 2 + 1), M(2))

\* SummaryRowApp with Average_Price_per_Cent aggregated as the mean of the
\* per-row price-per-cent column (the aggregate of app2.py).
SummaryRowAppMeanOfRows(d, key, g) ==
    IF d = Property
    THEN [Standardized_Location_Name |-> key,
          Average_Price |-> Mean(g, "Plot__Price"),
          Sum_Price |-> Sum(g, "Plot__Price"),
          Sum_Area |-> Sum(g, "Plot__Area_Cents"),
          Total_Listings |-> Len(g),
          Average_Build_Area |-> Mean(g, "Build__Area"),
          Average_Plot_Area_Cents |-> Mean(g, "Plot__Area_Cents"),
          Average_Price_per_Cent |-> Mean(g, "Price_per_cent")]
    ELSE [Location |-> key,
          Average_Price |-> Mean(g, "Price"),
          Sum_Price |-> Sum(g, "Price"),
          Sum_Area |-> Sum(g, "Area"),
          Total_Plots |-> Len(g),
          Average_Area |-> Mean(g, "Area"),
          Median_Area |-> Median(g, "Area"),
          Average_Price_per_Cent |-> Mean(g, "Price_per_cent")]

\* app.py: groupby(location).agg(...).reset_index(), then the ratio column
\* Average_Price_per_Cent = Sum_Price / Sum_Area.
SummaryRowApp(d, key, g) ==
    IF d = Property
    THEN [Standardized_Location_Name |-> key,
          Average_Price |-> Mean(g, "Plot__Price"),
          Sum_Price |-> Sum(g, "Plot__Price"),
          Sum_Area |-> Sum(g, "Plot__Area_Cents"),
          Total_Listings |-> Len(g),
          Average_Build_Area |-> Mean(g, "Build__Area"),
          Average_Plot_Area_Cents |-> Mean(g, "Plot__Area_Cents"),
          Average_Price_per_Cent |-> Div(Sum(g, "Plot__Price"), Sum(g, "Plot__Area_Cents"))]
    ELSE [Location |-> key,
          Average_Price |-> Mean(g, "Price"),
          Sum_Price |-> Sum(g, "Price"),
          Sum_Area |-> Sum(g, "Area"),
          Total_Plots |-> Len(g),
          Average_Area |-> Mean(g, "Area"),
          Median_Area |-> Median(g, "Area"),
          Average_Price_per_Cent |-> Div(Sum(g, "Price"), Sum(g, "Area"))]

\* app2.py: groupby(location).agg(...).reset_index(); Average_Price_per_Cent is
\* the mean of the per-row price-per-cent column.
SummaryRowApp2(d, key, g) ==
    IF d = Property
    THEN [Standardized_Location_Name |-> key,
          Average_Price |-> Mean(g, "Plot__Price"),
          Average_Price_per_Cent |-> Mean(g, "Price_per_cent"),
          Total_Listings |-> Len(g),
          Average_Build_Area |-> Mean(g, "Build__Area"),
          Average_Plot_Area |-> Mean(g, "Plot__Area")]
    ELSE [Location |-> key,
          Average_Price |-> Mean(g, "Price"),
          Average_Price_per_Cent |-> Mean(g, "Price_per_cent"),
          Total_Plots |-> Len(g),
          Average_Area |-> Mean(g, "Area"),
          Median_Area |-> Median(g, "Area")]

Summarize(v, d, df) ==
    LET keys == GroupKeys(df, d)
    IN [i \in DOMAIN keys |->
            IF v = App THEN SummaryRowApp(d, keys[i], Group(df, d, keys[i]))
            ELSE SummaryRowApp2(d, keys[i], Group(df, d, keys[i]))]

-----------------------------------------------------------------------------
(* Comparative Selector (app.py).                                          *)

\* Without the i-th row.
Drop(df, i) == SubSeq(df, 1, i - 1) \o SubSeq(df, i + 1, Len(df))

\* sort_values(by='Average_Price', ascending=...): every order of the rows that
\* is sorted by the column.  The default sort (kind='quicksort') is not stable,
\* so rows of equal Average_Price come out in any order.
RECURSIVE SortValues(_, _)
SortValues(df, ascending) ==
    IF df = <<>> THEN { <<>> }
    ELSE LET Before(a, b) == IF ascending
                             THEN FracLess(a.Average_Price, b.Average_Price)
                             ELSE FracLess(b.Average_Price, a.Average_Price)
             first == { i \in DOMAIN df : \A j \in DOMAIN df : ~Before(df[j], df[i]) }
         IN UNION { { <<df[i]>> \o rest : rest \in SortValues(Drop(df, i), ascending) }
                    : i \in first }

\* drop_duplicates(keep='last'): the last occurrence stays where it is.
RECURSIVE DropDuplicatesKeepLast(_)
DropDuplicatesKeepLast(df) ==
    IF df = <<>> THEN <<>>
    ELSE LET rest == DropDuplicatesKeepLast(Tail(df))
         IN IF Head(df) \in Range(Tail(df)) THEN rest ELSE <<Head(df)>> \o rest

\* DataFrame.drop_duplicates(): a row equal in every column to an earlier row
\* is dropped; the first occurrence stays where it is.
RECURSIVE DropDuplicates(_)
DropDuplicates(df) ==
    IF df = <<>> THEN <<>>
    ELSE LET init == DropDuplicates(SubSeq(df, 1, Len(df) - 1))
             last == df[Len(df)]
         IN IF last \in Range(init) THEN init ELSE Append(init, last)

\* selected_regions without the fallback for an empty selection.
SelectedRegionsAsGiven(d, data, w) == w.selected_locations

\* selected_regions: the selection, or every location of the loaded table.
SelectedRegions(d, data, w) ==
    IF w.selected_locations # {} THEN w.selected_locations ELSE Options(data, LocCol(d))

SelectedData(d, data, w, summary) ==
    Isin(summary, LocCol(d), SelectedRegions(d, data, w))

\* Comparison without drop_duplicates().
ComparisonConcat(selected, top, bottom) == selected \o top \o bottom

\* pd.concat([selected, top, bottom]).drop_duplicates().reset_index(drop=True)
Comparison(selected, top, bottom) == DropDuplicates(selected \o top \o bottom)

-----------------------------------------------------------------------------
(* Schema check.                                                           *)

\* df.columns of a loaded table, in the order of the file.
ColumnsOf(d, data) ==
    LET Has(c) == c \in DOMAIN data[1] IN SelectSeq(RequiredColumns(d), Has)

\* missing_columns cut to the first missing column.
missing_columns_first(d, data) ==
    LET Lacks(c) == c \notin DOMAIN data[1]
        all == SelectSeq(RequiredColumns(d), Lacks)
    IN SubSeq(all, 1, 1)

\* missing_prop_columns / missing_plot_columns: the required columns the loaded
\* table lacks, in the order of the required list.
missing_columns(d, data) ==
    LET Lacks(c) == c \notin DOMAIN data[1] IN SelectSeq(RequiredColumns(d), Lacks)

-----------------------------------------------------------------------------
(* Map of the plot dashboard: price categories (app.py).                   *)

\* The numbers of a sequence in increasing order.
RECURSIVE Sorted(_)
Sorted(s) ==
    IF s = <<>> THEN <<>>
    ELSE LET i == CHOOSE k \in DOMAIN s : \A j \in DOMAIN s : s[k] <= s[j]
         IN <<s[i]>> \o Sorted(SubSeq(s, 1, i - 1) \o SubSeq(s, i + 1, Len(s)))

\* sorted(set(...)) of a sequence of numbers.
RECURSIVE SortedSet(_)
SortedSet(S) ==
    IF S = {} THEN <<>>
    ELSE LET m == CHOOSE x \in S : \A y \in S : x <= y
         IN <<m>> \o SortedSet(S \ {m})

\* Series.quantile(k/4) with linear interpolation, times 4 (bin edges are kept
\* in quarters of a thousandth so that the interpolation is exact).
Quantile4(vals, k) ==
    LET pos == k * (Len(vals) - 1)
        i   == pos \div 4 + 1
        rem == pos % 4
    IN IF rem = 0 THEN 4 * vals[i] ELSE 4 * vals[i] + rem * (vals[i + 1] - vals[i])

\* price_bins: min, quartiles and max of the price per cent, duplicates dropped.
price_bins(df) ==
    LET vals == Sorted(Column(df, "Price_per_cent"))
    IN SortedSet({ Quantile4(vals, k) : k \in 0..4 })

\* int(edge) as decimal text.
EdgeText(e) == ToString(e \div 4000)

\* price_labels: one label "int(lo) - int(hi)" per pair of neighbouring edges.
price_labels(bins) ==
    [i \in 1..(Len(bins) - 1) |-> EdgeText(bins[i]) \o " - " \o EdgeText(bins[i + 1])]

\* The cell of a row that pd.cut leaves without a category (NaN).
NoCategory == ""

\* pd.cut raises ValueError when two labels are equal.
CutRaises(labels) == Cardinality(Range(labels)) # Len(labels)

\* pd.cut(x, bins, labels, include_lowest=True): the label of the interval
\* (lo, hi] that holds x, the lowest edge included in the first interval.
Cut(x, bins, labels) ==
    LET x4 == 4 * x
    IN IF Len(bins) < 2 THEN NoCategory
       ELSE IF x4 = bins[1] THEN labels[1]
       ELSE IF \E i \in DOMAIN labels : bins[i] < x4 /\ x4 <= bins[i + 1]
            THEN labels[CHOOSE i \in DOMAIN labels : bins[i] < x4 /\ x4 <= bins[i + 1]]
            ELSE NoCategory

\* filtered_plot_data['Price_Category'] = pd.cut(...): the column is added to
\* the filtered table.
WithPriceCategory(df) ==
    LET bins   == price_bins(df)
        labels == price_labels(bins)
    IN [k \in DOMAIN df |->
           [c \in (DOMAIN df[k]) \cup {"Price_Category"} |->
               IF c = "Price_Category" THEN Cut(df[k].Price_per_cent, bins, labels)
               ELSE df[k][c]]]

NoDataWarning == "No data available for the selected filters."
CategoryError == "Error in creating Price Categories"
SelectPrompt  == "Please select at least one location to view the listings."

\* The map section: what the filtered table is afterwards, whether the map is
\* drawn, and the message shown instead.
MapSection(v, d, filtered) ==
    IF d = Property
    THEN [table |-> filtered, drawn |-> FALSE, messages |-> {}]
    ELSE IF filtered = <<>>
    THEN [table |-> filtered, drawn |-> FALSE, messages |-> {NoDataWarning}]
    ELSE IF v = App2
    THEN [table |-> filtered, drawn |-> TRUE, messages |-> {}]
    ELSE IF CutRaises(price_labels(price_bins(filtered)))
    THEN [table |-> filtered, drawn |-> FALSE, messages |-> {CategoryError}]
    ELSE [table |-> WithPriceCategory(filtered), drawn |-> TRUE, messages |-> {}]

-----------------------------------------------------------------------------
(* Key performance indicators.                                             *)

\* The KPI row: app.py shows the overall price per cent as the ratio of the
\* sums (0 when the total area is 0), app2.py the mean of a per-row column.
KPIs(v, d, f) ==
    IF v = App
    THEN [Number_of_Listings |-> Len(f),
          Average_Price |-> Mean(f, PriceCol(d)),
          Average_Price_per_Cent |->
              IF Sum(f, AreaCol(App, d)) # 0
              THEN Div(Sum(f, PriceCol(d)), Sum(f, AreaCol(App, d)))
              ELSE Div(0, 1)]
    ELSE [Total |-> Len(f),
          Average_Price |-> Mean(f, PriceCol(d)),
          Average_Price_per_Sqft |->
              Mean(f, IF d = Property THEN "Price_per_sqft" ELSE "Price_per_cent")]

\* The charts of a run: none of them is guarded by the size of the filtered
\* table, except the map.
Charts(d, map_drawn) ==
    { "summary", "price_distribution", "scatter", "ratio_histogram", "comparison" }
    \cup (IF map_drawn THEN {"map"} ELSE {})

-----------------------------------------------------------------------------
(* Listings table.                                                         *)

make_clickable(url) == "<a href=\"" \o url \o "\" target=\"_blank\">View Listing</a>"

UrlCol(d) == IF d = Property THEN "Plot__url" ELSE "Url"

\* prop_display_columns / plot_display_columns
display_columns(v, d) ==
    IF d = Property
    THEN << "Standardized_Location_Name", "Plot__Price", "Plot__Beds", "Build__Area",
            AreaCol(v, Property), "Price_per_sqft", "Price_per_cent",
            "Build_to_Plot_Ratio", "Total_Area", "Plot__DESC", "Plot__url" >>
    ELSE << "Location", "Price", "Area", "Price_per_cent", "density",
            "price_to_price_per_cent_ratio", "beach_proximity", "lake_proximity", "Url" >>

\* A copy of the filtered table with the URL column rewritten, cut to the
\* display columns.
DisplayTable(v, d, f) ==
    LET cols == Range(display_columns(v, d))
    IN [k \in DOMAIN f |->
           [c \in cols |-> IF c = UrlCol(d) THEN make_clickable(f[k][c]) ELSE f[k][c]]]

\* TableShown without the test of the location selection.
TableShownAlways(v, w) == TRUE

\* app.py shows the table only when a location is selected, app2.py always.
TableShown(v, w) == v = App2 \/ w.selected_locations # {}

-----------------------------------------------------------------------------
(* Export Formatter.                                                       *)

\* A column read from the file has dtype int64 when all its values are whole,
\* float64 otherwise.
IsIntColumn(data, c) == \A k \in DOMAIN data : data[k][c] % 1000 = 0

\* The fractional digits of a float, trailing zeros dropped, at least one.
FracText(f) ==
    IF f % 100 = 0 THEN ToString(f \div 100)
    ELSE IF f % 10 = 0
         THEN (IF f < 100 THEN "0" ELSE "") \o ToString(f \div 10)
         ELSE (IF f < 10 THEN "00" ELSE IF f < 100 THEN "0" ELSE "") \o ToString(f)

\* The text to_csv writes for a cell.
CellText(data, c, x) ==
    IF c \in TextColumns THEN x
    ELSE IF IsIntColumn(data, c) THEN ToString(x \div 1000)
    ELSE ToString(x \div 1000) \o "." \o FracText(x % 1000)

\* to_csv(header=False): the lines of the rows only.
ToCsvNoHeader(data, columns, df) ==
    [k \in DOMAIN df |-> [i \in DOMAIN columns |-> CellText(data, columns[i], df[k][columns[i]])]]

\* to_csv that writes nothing at all for a table without rows.
ToCsvBlankWhenEmpty(data, columns, df) ==
    IF df = <<>> THEN <<>>
    ELSE <<columns>> \o
         [k \in DOMAIN df |->
             [i \in DOMAIN columns |-> CellText(data, columns[i], df[k][columns[i]])]]

\* df.to_csv(index=False): the header line, then one line per row, each line
\* the sequence of its cells.
ToCsv(data, columns, df) ==
    <<columns>> \o
    [k \in DOMAIN df |-> [i \in DOMAIN columns |-> CellText(data, columns[i], df[k][columns[i]])]]

\* The columns of the table handed to the export.
ExportColumns(d, data, table) ==
    ColumnsOf(d, data)
    \o (IF table # <<>> /\ "Price_Category" \in DOMAIN table[1]
        THEN <<"Price_Category">> ELSE <<>>)

\* LoadedAfterRun with the price categories assigned to the loaded table.
LoadedAfterRunInPlace(v, d, data, table) ==
    IF table # <<>> /\ "Price_Category" \in DOMAIN table[1]
    THEN WithPriceCategory(data) ELSE data

\* The loaded table at the end of a run.  No statement of either script assigns
\* to property_data / plot_data: the derived columns go to the filtered table
\* and to the display copy.
LoadedAfterRun(v, d, data, table) == data

-----------------------------------------------------------------------------
(* One run of the script.                                                  *)

\* The sections of the script body after the schema check.
Sections ==
    { "filters", "kpis", "map", "summary", "charts", "comparison", "table", "export" }

\* What a run that passes the schema check shows.
Page(v, d, data, w, filtered) ==
    LET map == MapSection(v, d, filtered)
    IN [halted   |-> FALSE,
        error    |-> <<>>,
        steps    |-> Sections,
        data     |-> LoadedAfterRun(v, d, data, map.table),
        listed   |-> Len(filtered),
        kpis     |-> KPIs(v, d, filtered),
        charts   |-> Charts(d, map.drawn),
        messages |-> map.messages \cup (IF TableShown(v, w) THEN {} ELSE {SelectPrompt}),
        table    |-> IF TableShown(v, w) THEN DisplayTable(v, d, map.table) ELSE <<>>,
        export   |-> ToCsv(data, ExportColumns(d, data, map.table), map.table)]

\* What a run shows that fails the schema check: st.error naming the missing
\* columns, then st.stop().
HaltedPage(d, data) ==
    [halted   |-> TRUE,
     error    |-> missing_columns(d, data),
     steps    |-> {},
     data     |-> data,
     listed   |-> 0,
     kpis     |-> <<>>,
     charts   |-> {},
     messages |-> {},
     table    |-> <<>>,
     export   |-> <<>>]

\* What one run computes from the loaded table and the widget values: a set,
\* one element per order the two sorts may return.
RunScript(v, d, data, w) ==
    LET filtered == Filter(v, d, data, w)
        summary  == Summarize(v, d, filtered)
    IN IF v = App
       THEN { [filtered   |-> filtered,
               page       |-> Page(v, d, data, w, filtered),
               summary    |-> summary,
               top        |-> HeadN(desc, TopN),
               bottom     |-> HeadN(asc, TopN),
               selected   |-> SelectedData(d, data, w, summary),
               comparison |-> Comparison(SelectedData(d, data, w, summary),
                                         HeadN(desc, TopN), HeadN(asc, TopN))]
              : desc \in SortValues(summary, FALSE), asc \in SortValues(summary, TRUE) }
       ELSE { [filtered |-> filtered, page |-> Page(v, d, data, w, filtered),
               summary |-> summary, top |-> <<>>,
               bottom |-> <<>>, selected |-> <<>>, comparison |-> <<>>] }

\* A run stopped by the schema check computes none of the tables.
HaltedRun(d, data) ==
    [filtered |-> <<>>, page |-> HaltedPage(d, data), summary |-> <<>>, top |-> <<>>,
     bottom |-> <<>>, selected |-> <<>>, comparison |-> <<>>]

\* One run of the dashboard d: the schema check, then the body.
RunDashboard(v, d, data, w) ==
    IF missing_columns(d, data) # <<>> THEN { HaltedRun(d, data) }
    ELSE RunScript(v, d, data, w)

\* A run stopped by the schema check creates no widget.
NoControls ==
    [ locations |-> {}, categories |-> {}, price |-> <<0, 0>>, area |-> <<0, 0>>,
      extra |-> <<0, 0>>, ratio |-> <<0, 0>>, distance |-> <<>> ]

\* The widgets a run creates.
Sidebar(v, d, data) ==
    IF missing_columns(d, data) # <<>> THEN NoControls ELSE Controls(v, d, data)

\* load_property_data / load_plot_data under st.cache_data: the table cached for
\* the path, read from disk on the first call only.
Loaded(d) ==
    IF cache[FilePath(d)].loaded THEN cache[FilePath(d)].df ELSE disk[FilePath(d)]

\* Every call of the loader reads the file (no memoization).
ReadsAfterUncached(d) == [reads EXCEPT ![FilePath(d)] = @ + 1]

\* The cache and the number of reads after the loader was called for d.
CacheAfter(d) == [cache EXCEPT ![FilePath(d)] = [loaded |-> TRUE, df |-> Loaded(d)]]
ReadsAfter(d) == [reads EXCEPT ![FilePath(d)] = @ + (IF cache[FilePath(d)].loaded THEN 0 ELSE 1)]

\* The table of the dashboard on screen (loaded by the run that rendered it).
Data == cache[FilePath(dashboard)].df

SymDiff(S, T) == (S \ T) \cup (T \ S)

B2N(b) == IF b THEN 1 ELSE 0

\* How far the widget values are from the defaults, in elementary changes (one
\* option toggled in a multiselect, one slider handle moved by one tick).
Changed(v, d, c, w) ==
    Cardinality(SymDiff(w.selected_locations, Defaults(v, c).selected_locations))
    + Cardinality(SymDiff(w.selected_category, c.categories))
    + Moved(w.selected_price, c.price, PriceStep)
    + Moved(w.selected_area, c.area, AreaStep(v))
    + Moved(w.selected_extra, c.extra, ExtraStep(v, d))
    + Moved(w.selected_ratio, c.ratio, RatioStep)
    + SumSeq([i \in DOMAIN w.distance_filters |->
                 Moved(w.distance_filters[i], c.distance[i], DistanceStep)])

\* The tables of a run.
Render(v, d, data, w) ==
    \E t \in RunDashboard(v, d, data, w) :
        /\ page' = t.page
        /\ filtered_data' = t.filtered
        /\ location_summary' = t.summary
        /\ top_regions' = t.top
        /\ bottom_regions' = t.bottom
        /\ selected_data' = t.selected
        /\ comparison_data' = t.comparison

\* Rerun that filters what the last run left instead of the loaded table.
RerunOnFiltered(w) ==
    /\ Changed(variant, dashboard, controls, w) <= MaxChanged
    /\ cache' = CacheAfter(dashboard)
    /\ reads' = ReadsAfter(dashboard)
    /\ controls' = Sidebar(variant, dashboard, Loaded(dashboard))
    /\ widgets' = w
    /\ Render(variant, dashboard,
              IF filtered_data = <<>> THEN Loaded(dashboard) ELSE filtered_data, w)
    /\ UNCHANGED <<variant, disk, dashboard>>

\* The re-run that follows an interaction on the dashboard on screen: the table
\* comes from the cache, the widgets hold w.
Rerun(w) ==
    /\ Changed(variant, dashboard, controls, w) <= MaxChanged
    /\ cache' = CacheAfter(dashboard)
    /\ reads' = ReadsAfter(dashboard)
    /\ controls' = Sidebar(variant, dashboard, Loaded(dashboard))
    /\ widgets' = w
    /\ Render(variant, dashboard, Loaded(dashboard), w)
    /\ UNCHANGED <<variant, disk, dashboard>>

\* The first run of a session whose files are one of F: the property dashboard
\* with every widget at its default.
InitWith(F) ==
    /\ variant \in Variants
    /\ disk \in F
    /\ dashboard = Property
    /\ cache = [p \in Paths |-> IF p = property_file_path
                                THEN [loaded |-> TRUE, df |-> disk[p]]
                                ELSE [loaded |-> FALSE, df |-> <<>>]]
    /\ reads = [p \in Paths |-> IF p = property_file_path THEN 1 ELSE 0]
    /\ controls = Sidebar(variant, Property, disk[property_file_path])
    /\ widgets = Defaults(variant, controls)
    /\ \E t \in RunDashboard(variant, Property, disk[property_file_path], widgets) :
          /\ page = t.page
          /\ filtered_data = t.filtered
          /\ location_summary = t.summary
          /\ top_regions = t.top
          /\ bottom_regions = t.bottom
          /\ selected_data = t.selected
          /\ comparison_data = t.comparison

Init == InitWith(Files)

\* The first run of a session whose files may lack required columns.
InitSchema == InitWith(MalformedFiles)

\* The sidebar radio: the other dashboard is rendered, its table loaded through
\* the cache, its widgets created with their defaults.
SelectDashboard(d) ==
    /\ d # dashboard
    /\ dashboard' = d
    /\ cache' = CacheAfter(d)
    /\ reads' = ReadsAfter(d)
    /\ controls' = Sidebar(variant, d, Loaded(d))
    /\ widgets' = Defaults(variant, controls')
    /\ Render(variant, d, Loaded(d), widgets')
    /\ UNCHANGED <<variant, disk>>

\* One option of the location multiselect is added or removed.
ToggleLocation(l) ==
    Rerun([widgets EXCEPT !.selected_locations = SymDiff(@, {l})])

\* One option of the bedrooms / density multiselect is added or removed.
ToggleCategory(c) ==
    Rerun([widgets EXCEPT !.selected_category = SymDiff(@, {c})])

\* A handle of the price slider is moved.
SetPrice(r) == Rerun([widgets EXCEPT !.selected_price = r])

\* A handle of the area slider is moved.
SetArea(r) == Rerun([widgets EXCEPT !.selected_area = r])

\* A handle of the build-area (property) / price-per-cent (plot) slider is moved.
SetExtra(r) == Rerun([widgets EXCEPT !.selected_extra = r])

\* A handle of the ratio slider is moved.
SetRatio(r) == Rerun([widgets EXCEPT !.selected_ratio = r])

\* A handle of the i-th distance slider is moved.
SetDistance(i, r) == Rerun([widgets EXCEPT !.distance_filters[i] = r])

Next ==
    \/ \E d \in Dashboards : SelectDashboard(d)
    \/ \E l \in controls.locations : ToggleLocation(l)
    \/ \E c \in controls.categories : ToggleCategory(c)
    \/ \E r \in Moves(widgets.selected_price, controls.price, PriceStep) : SetPrice(r)
    \/ \E r \in Moves(widgets.selected_area, controls.area, AreaStep(variant)) : SetArea(r)
    \/ \E r \in Moves(widgets.selected_extra, controls.extra, ExtraStep(variant, dashboard)) :
          SetExtra(r)
    \/ \E r \in Moves(widgets.selected_ratio, controls.ratio, RatioStep) : SetRatio(r)
    \/ \E i \in DOMAIN widgets.distance_filters :
          \E r \in Moves(widgets.distance_filters[i], controls.distance[i], DistanceStep) :
             SetDistance(i, r)

Spec == Init /\ [][Next]_vars

\* The same session over files that may lack required columns.
SpecSchema == InitSchema /\ [][Next]_vars

-----------------------------------------------------------------------------
(* Properties of the Filter Engine.                                        *)

\* lo <= x <= hi
InRange(x, range) == range[1] <= x /\ x <= range[2]

\* The categorical predicates of a FilterSpec under each script's rule for an
\* empty selection.
CategoricalPass(v, d, r, w) ==
    IF v = App
    THEN /\ w.selected_locations # {} => r[LocCol(d)] \in w.selected_locations
         /\ w.selected_category # {} => r[CatCol(d)] \in w.selected_category
    ELSE /\ r[LocCol(d)] \in w.selected_locations
         /\ r[CatCol(d)] \in w.selected_category

\* Row r satisfies every predicate of the FilterSpec w at once.
Satisfies(v, d, r, w) ==
    /\ CategoricalPass(v, d, r, w)
    /\ InRange(r[PriceCol(d)], w.selected_price)
    /\ InRange(r[AreaCol(v, d)], w.selected_area)
    /\ InRange(r[ExtraCol(d)], w.selected_extra)
    /\ InRange(r[RatioCol(d)], w.selected_ratio)
    /\ \A i \in DOMAIN w.distance_filters :
          InRange(r[plot_distance_columns[i]], w.distance_filters[i])

\* The rows of df that satisfy w, and those that satisfy both w1 and w2.
Matching(v, d, df, w) ==
    LET Keep(r) == Satisfies(v, d, r, w) IN SelectSeq(df, Keep)
MatchingBoth(v, d, df, w1, w2) ==
    LET Keep(r) == Satisfies(v, d, r, w1) /\ Satisfies(v, d, r, w2) IN SelectSeq(df, Keep)

\* The FilterSpecs one elementary change away from w.
Near(w) ==
    { [w EXCEPT !.selected_locations = SymDiff(@, {l})] : l \in controls.locations }
    \cup { [w EXCEPT !.selected_category = SymDiff(@, {c})] : c \in controls.categories }
    \cup { [w EXCEPT !.selected_price = r] :
             r \in Moves(w.selected_price, controls.price, PriceStep) }
    \cup { [w EXCEPT !.selected_area = r] :
             r \in Moves(w.selected_area, controls.area, AreaStep(variant)) }
    \cup { [w EXCEPT !.selected_extra = r] :
             r \in Moves(w.selected_extra, controls.extra, ExtraStep(variant, dashboard)) }
    \cup { [w EXCEPT !.selected_ratio = r] :
             r \in Moves(w.selected_ratio, controls.ratio, RatioStep) }
    \cup UNION { { [w EXCEPT !.distance_filters[i] = r] :
                     r \in Moves(w.distance_filters[i], controls.distance[i], DistanceStep) }
                 : i \in DOMAIN w.distance_filters }

\* C1: in app.py, in both dashboards and whatever the other controls hold, an
\* empty location selection and an empty bedrooms / density selection give the
\* same filtered table as the selection of every value of the column.
C1_EmptyIsSelectAll ==
    variant = App =>
        LET allLoc  == [widgets EXCEPT !.selected_locations = controls.locations]
            noLoc   == [widgets EXCEPT !.selected_locations = {}]
            allCat  == [widgets EXCEPT !.selected_category = controls.categories]
            noCat   == [widgets EXCEPT !.selected_category = {}]
        IN /\ Filter(App, dashboard, Data, noLoc) = Filter(App, dashboard, Data, allLoc)
           /\ Filter(App, dashboard, Data, noCat) = Filter(App, dashboard, Data, allCat)
           /\ widgets.selected_locations = {} =>
                  filtered_data = Filter(App, dashboard, Data, allLoc)
           /\ widgets.selected_category = {} =>
                  filtered_data = Filter(App, dashboard, Data, allCat)

\* C1 witness: app.py with both multiselects emptied, several options each, and
\* rows in the result.
C1_Witness ==
    /\ variant = App
    /\ widgets.selected_locations = {}
    /\ widgets.selected_category = {}
    /\ Cardinality(controls.locations) >= 2
    /\ Cardinality(controls.categories) >= 2
    /\ Len(filtered_data) >= 2

\* C2 (state part): in app2.py an empty location or bedrooms / density selection
\* leaves zero rows whatever the other controls hold, while in app.py an empty
\* selection filters like the selection of every value.
C2_EmptySelection ==
    /\ (variant = App2 /\ (widgets.selected_locations = {} \/ widgets.selected_category = {}))
           => filtered_data = <<>>
    /\ (variant = App /\ widgets.selected_locations = {})
           => filtered_data =
                  Filter(App, dashboard, Data,
                         [widgets EXCEPT !.selected_locations = controls.locations])
    /\ (variant = App /\ widgets.selected_category = {})
           => filtered_data =
                  Filter(App, dashboard, Data,
                         [widgets EXCEPT !.selected_category = controls.categories])

\* C2 (defaults part): in app2.py a dashboard is first rendered with every
\* option of both multiselects selected.
C2_DefaultsAll ==
    variant = App2 =>
        /\ widgets.selected_locations = controls.locations
        /\ widgets.selected_category = controls.categories

\* C2: the two scripts apply different empty-selection rules: app2.py defaults
\* its multiselects to all values and treats an empty selection as select-none
\* (zero rows), app.py treats it as select-all.
C2_TwoRules ==
    /\ C2_DefaultsAll
    /\ [][dashboard' # dashboard => C2_DefaultsAll']_vars
    /\ []C2_EmptySelection

\* C2 witness: app2.py with the location selection emptied on a table whose
\* rows all pass the other controls.
C2_Witness ==
    /\ variant = App2
    /\ widgets.selected_locations = {}
    /\ widgets.selected_category = controls.categories
    /\ filtered_data = <<>>
    /\ Filter(App, dashboard, Data, widgets) # <<>>

\* C3: the filtered table is exactly the loaded rows that satisfy every active
\* predicate at once, each numeric predicate being the closed interval
\* lo <= value <= hi.
C3_ConjunctionOfClosedIntervals ==
    filtered_data = Matching(variant, dashboard, Data, widgets)

\* C3 witness: a slider moved off its default, a retained row whose price is
\* the lower bound, a retained row whose price is the upper bound, and a row
\* excluded by an interval.
C3_Witness ==
    /\ widgets.selected_price # controls.price
    /\ \E i \in DOMAIN filtered_data :
          filtered_data[i][PriceCol(dashboard)] = widgets.selected_price[1]
    /\ \E i \in DOMAIN filtered_data :
          filtered_data[i][PriceCol(dashboard)] = widgets.selected_price[2]
    /\ \E i \in DOMAIN Data :
          /\ CategoricalPass(variant, dashboard, Data[i], widgets)
          /\ Data[i] \notin Range(filtered_data)

\* C4: filtering by S1 and then by S2 gives the rows that satisfy S1 and S2, in
\* either order, and the script's filter gives the rows of one combined mask of
\* its predicates (S1 the widget values, S2 every FilterSpec one change away).
C4_SequentialIsConjunction ==
    /\ Filter(variant, dashboard, Data, widgets) =
           Matching(variant, dashboard, Data, widgets)
    /\ \A w2 \in Near(widgets) :
          /\ Filter(variant, dashboard, filtered_data, w2) =
                 MatchingBoth(variant, dashboard, Data, widgets, w2)
          /\ Filter(variant, dashboard, Filter(variant, dashboard, Data, w2), widgets) =
                 Filter(variant, dashboard, filtered_data, w2)

\* C4 witness: app.py with a location selected and a slider moved, where both
\* exclude rows and rows are left.
C4_Witness ==
    /\ variant = App
    /\ widgets.selected_locations # {}
    /\ widgets.selected_price # controls.price
    /\ filtered_data # <<>>
    /\ Len(filtered_data) < Len(Isin(Data, LocCol(dashboard), widgets.selected_locations))
    /\ Len(Isin(Data, LocCol(dashboard), widgets.selected_locations)) < Len(Data)

\* C5: the filter is idempotent: filtering the filtered table again with the
\* same FilterSpec returns the same rows.
C5_Idempotent ==
    Filter(variant, dashboard, filtered_data, widgets) = filtered_data

\* C5 witness: a filter that removed some rows and kept some.
C5_Witness ==
    /\ filtered_data # <<>>
    /\ Len(filtered_data) < Len(Data)
    /\ widgets # Defaults(variant, controls)

-----------------------------------------------------------------------------
(* Properties of the Aggregator.                                           *)

\* The location keys of a table, row by row.
Keys(df) == Column(df, LocCol(dashboard))

\* Reference reducers over the filtered rows of one location: the total of a
\* column and the number of rows.
RECURSIVE GroupTotal(_, _, _)
GroupTotal(df, key, col) ==
    IF df = <<>> THEN 0
    ELSE (IF Head(df)[LocCol(dashboard)] = key THEN Head(df)[col] ELSE 0)
         + GroupTotal(Tail(df), key, col)

GroupCount(df, key) == Cardinality({ i \in DOMAIN df : df[i][LocCol(dashboard)] = key })

\* The sum of the per-row ratios price / area of one location, as a fraction.
RECURSIVE SumOfRatios(_, _)
SumOfRatios(df, key) ==
    IF df = <<>> THEN [num |-> 0, den |-> 1]
    ELSE LET rest == SumOfRatios(Tail(df), key)
             r    == Head(df)
             q    == Div(r[PriceCol(dashboard)], r[AreaCol(App, dashboard)])
         IN IF r[LocCol(dashboard)] = key
            THEN Div(q.num * rest.den + rest.num * q.den, q.den * rest.den)
            ELSE rest

\* The mean of the per-row ratios price / area of one location.
MeanOfRatios(df, key) ==
    LET t == SumOfRatios(df, key) IN Div(t.num, t.den * GroupCount(df, key))

\* Sum of price over sum of area of one location.
RatioOfSums(df, key) ==
    Div(GroupTotal(df, key, PriceCol(dashboard)),
        GroupTotal(df, key, AreaCol(App, dashboard)))

\* C6: in app.py, for every filtered table and every location group,
\* Average_Price_per_Cent is the sum of price over the sum of area of the
\* group's filtered rows, and is not the mean of the per-row ratios where the
\* two differ.
C6_RatioOfSums ==
    variant = App =>
        \A i \in DOMAIN location_summary :
            LET s   == location_summary[i]
                key == s[LocCol(dashboard)]
            IN /\ s.Average_Price_per_Cent = RatioOfSums(filtered_data, key)
               /\ MeanOfRatios(filtered_data, key) # RatioOfSums(filtered_data, key)
                      => s.Average_Price_per_Cent # MeanOfRatios(filtered_data, key)

\* C6 witness: app.py with a group of two rows whose mean of per-row ratios
\* differs from its ratio of sums.
C6_Witness ==
    /\ variant = App
    /\ \E i \in DOMAIN location_summary :
          LET key == location_summary[i][LocCol(dashboard)]
          IN /\ GroupCount(filtered_data, key) >= 2
             /\ MeanOfRatios(filtered_data, key) # RatioOfSums(filtered_data, key)

\* C7: in app2.py, Average_Price_per_Cent of every location group is the sum of
\* price over the sum of area of the group's filtered rows.
C7_App2RatioOfSums ==
    variant = App2 =>
        \A i \in DOMAIN location_summary :
            location_summary[i].Average_Price_per_Cent =
                RatioOfSums(filtered_data, location_summary[i][LocCol(dashboard)])

\* The summary of the listings <<A, 100, 10>>, <<A, 300, 30>>, <<B, 1000, 10>>.
ScenarioListings ==
    << <<"A", M(100), M(10)>>, <<"A", M(300), M(30)>>, <<"B", M(1000), M(10)>> >>

IsScenario ==
    [i \in DOMAIN filtered_data |->
        << filtered_data[i][LocCol(dashboard)], filtered_data[i][PriceCol(dashboard)],
           filtered_data[i][AreaCol(App, dashboard)] >>] = ScenarioListings

ScenarioSummary ==
    << [key |-> "A", Average_Price |-> [num |-> 200, den |-> 1], Sum_Price |-> M(400),
        Sum_Area |-> M(40), Count |-> 2, Average_Price_per_Cent |-> [num |-> 10, den |-> 1]],
       [key |-> "B", Average_Price |-> [num |-> 1000, den |-> 1], Sum_Price |-> M(1000),
        Sum_Area |-> M(10), Count |-> 1, Average_Price_per_Cent |-> [num |-> 100, den |-> 1]] >>

\* The count column of a summary row.
Count(s) == IF dashboard = Property THEN s.Total_Listings ELSE s.Total_Plots

\* C8: in app.py the summary has one row per location of the filtered table,
\* whose mean, sums and count are those of exactly the filtered rows of that
\* location; the listings <<A,100,10>>, <<A,300,30>>, <<B,1000,10>> give
\* A: mean 200, sums 400 and 40, ratio 10 and B: mean 1000, ratio 100.
C8_GroupReducers ==
    variant = App =>
        /\ Range(Keys(location_summary)) = Range(Keys(filtered_data))
        /\ Len(location_summary) = Cardinality(Range(Keys(filtered_data)))
        /\ \A i \in DOMAIN location_summary :
              LET s   == location_summary[i]
                  key == s[LocCol(dashboard)]
              IN /\ Count(s) = GroupCount(filtered_data, key)
                 /\ s.Sum_Price = GroupTotal(filtered_data, key, PriceCol(dashboard))
                 /\ s.Sum_Area = GroupTotal(filtered_data, key, AreaCol(App, dashboard))
                 /\ s.Average_Price =
                        Div(GroupTotal(filtered_data, key, PriceCol(dashboard)),
                            M(GroupCount(filtered_data, key)))
        /\ IsScenario =>
              [i \in DOMAIN location_summary |->
                  LET s == location_summary[i]
                  IN [key |-> s[LocCol(dashboard)], Average_Price |-> s.Average_Price,
                      Sum_Price |-> s.Sum_Price, Sum_Area |-> s.Sum_Area,
                      Count |-> Count(s),
                      Average_Price_per_Cent |-> s.Average_Price_per_Cent]]
              = ScenarioSummary

\* C8 witness: app.py with exactly the three listings of the scenario filtered.
C8_Witness == variant = App /\ IsScenario /\ Len(location_summary) = 2

-----------------------------------------------------------------------------
(* Properties of the Comparative Selector.                                 *)

\* No key occurs twice.
DistinctKeys(df) == Cardinality(Range(Keys(df))) = Len(df)

\* C9: in app.py the comparison set has at most |selected| + 5 + 5 rows, no two
\* rows with the same location key, and every selected location that is in the
\* summary.
C9_ComparisonBounded ==
    variant = App =>
        /\ Len(comparison_data) <= Len(selected_data) + TopN + TopN
        /\ DistinctKeys(comparison_data)
        /\ \A l \in SelectedRegions(dashboard, Data, widgets) :
              l \in Range(Keys(location_summary)) => l \in Range(Keys(comparison_data))

\* C9 witness: app.py with locations selected, one of them not in the summary,
\* and selected rows that are also among the top and bottom rows.
C9_Witness ==
    /\ variant = App
    /\ widgets.selected_locations # {}
    /\ \E l \in widgets.selected_locations : l \notin Range(Keys(location_summary))
    /\ selected_data # <<>>
    /\ Len(comparison_data) < Len(selected_data) + Len(top_regions) + Len(bottom_regions)

\* The rows of df at the first occurrence of their key, in order.
RECURSIVE FirstOccurrences(_)
FirstOccurrences(df) ==
    IF df = <<>> THEN <<>>
    ELSE LET init == FirstOccurrences(SubSeq(df, 1, Len(df) - 1))
             last == df[Len(df)]
         IN IF \E j \in 1..(Len(df) - 1) : df[j][LocCol(dashboard)] = last[LocCol(dashboard)]
            THEN init ELSE Append(init, last)

\* df is the first rows of the summary in an order sorted by Average_Price.
IsHead(df, ascending) ==
    /\ Len(df) = IF Len(location_summary) < TopN THEN Len(location_summary) ELSE TopN
    /\ Range(df) \subseteq Range(location_summary)
    /\ DistinctKeys(df)
    /\ \A i, j \in DOMAIN df :
          i < j => IF ascending
                   THEN ~FracLess(df[j].Average_Price, df[i].Average_Price)
                   ELSE ~FracLess(df[i].Average_Price, df[j].Average_Price)
    /\ \A r \in Range(location_summary) \ Range(df) : \A i \in DOMAIN df :
          IF ascending
          THEN ~FracLess(r.Average_Price, df[i].Average_Price)
          ELSE ~FracLess(df[i].Average_Price, r.Average_Price)

\* C10: in app.py the comparison set is the selected rows, then the top five by
\* Average_Price descending, then the bottom five by Average_Price ascending,
\* reduced to the first occurrence of each location key, every row at the
\* position of its first appearance.
C10_FirstOccurrenceOrder ==
    variant = App =>
        /\ selected_data =
               SelectSeq(location_summary,
                         LAMBDA s : s[LocCol(dashboard)]
                                       \in SelectedRegions(dashboard, Data, widgets))
        /\ IsHead(top_regions, FALSE)
        /\ IsHead(bottom_regions, TRUE)
        /\ comparison_data =
               FirstOccurrences(selected_data \o top_regions \o bottom_regions)

\* C10 witness: app.py with more than five groups, so the top five and the
\* bottom five differ and overlap, all after the selected rows.
C10_Witness ==
    /\ variant = App
    /\ Len(location_summary) > TopN
    /\ Len(top_regions) = TopN
    /\ Range(top_regions) # Range(bottom_regions)
    /\ Range(top_regions) \cap Range(bottom_regions) # {}
    /\ comparison_data = selected_data

\* Rows of equal Average_Price stand in the lexical order of their keys.
TiesByKey(df) ==
    \A i, j \in DOMAIN df :
        (i < j /\ df[i].Average_Price = df[j].Average_Price)
            => LocRank(df[i][LocCol(dashboard)]) < LocRank(df[j][LocCol(dashboard)])

\* C11: in app.py, groups of equal Average_Price stand in the top-5 and in the
\* bottom-5 ranking in the lexical order of their keys, so the ranking is a
\* function of the summary.
C11_TiesByKey ==
    variant = App => TiesByKey(top_regions) /\ TiesByKey(bottom_regions)

\* C12: in app.py, with an empty location selection the selection counts as all
\* locations: the selected rows are the whole summary and the comparison set
\* holds every summary group exactly once.
C12_EmptySelectionIsAll ==
    (variant = App /\ widgets.selected_locations = {}) =>
        /\ selected_data = location_summary
        /\ Range(Keys(comparison_data)) = Range(Keys(location_summary))
        /\ Len(comparison_data) = Len(location_summary)

\* C12 witness: app.py, nothing selected, more than five groups, so that the
\* top five and the bottom five are proper subsets that overlap.
C12_Witness ==
    /\ variant = App
    /\ widgets.selected_locations = {}
    /\ Len(location_summary) > TopN
    /\ Range(top_regions) # Range(location_summary)
    /\ Range(bottom_regions) # Range(location_summary)
    /\ Range(top_regions) \cap Range(bottom_regions) # {}
    /\ Len(comparison_data) = Len(location_summary)

-----------------------------------------------------------------------------
(* Properties of the Record Store.                                         *)

\* The required columns that the table on screen lacks.
Absent == { c \in Range(RequiredColumns(dashboard)) : c \notin DOMAIN Data[1] }

\* C13: twelve columns are required of the property file and sixteen of the
\* plot file; when one is absent the run reports exactly the absent required
\* columns and halts before any filter, aggregate, chart or export step; when
\* none is absent no schema error is reported and the body runs.
C13_SchemaCheck ==
    /\ Len(property_required_columns) = 12
    /\ Len(plot_required_columns) = 16
    /\ Absent # {} =>
          /\ page.halted
          /\ Range(page.error) = Absent
          /\ Len(page.error) = Cardinality(Absent)
          /\ page.steps = {}
          /\ page.charts = {} /\ page.kpis = <<>> /\ page.export = <<>>
          /\ filtered_data = <<>> /\ location_summary = <<>> /\ comparison_data = <<>>
          /\ controls = NoControls
    /\ Absent = {} =>
          /\ ~page.halted
          /\ page.error = <<>>
          /\ page.steps = Sections
          /\ page.export # <<>>

\* C13 witness: the plot dashboard halted for two absent columns in a session
\* whose property file is complete and was rendered.
C13_Witness ==
    /\ dashboard = Plot
    /\ page.halted
    /\ Len(page.error) = 2
    /\ cache[property_file_path].loaded
    /\ missing_columns(Property, cache[property_file_path].df) = <<>>

-----------------------------------------------------------------------------
(* Properties of the zero-row result.                                      *)

\* C14: whenever the filters leave zero rows, in every dashboard the run
\* completes, no chart and no aggregate is shown, and the "no data" message is
\* shown instead.
C14_NoDataState ==
    (~page.halted /\ filtered_data = <<>>) =>
        /\ page.steps = Sections
        /\ page.charts = {}
        /\ page.kpis = <<>>
        /\ NoDataWarning \in page.messages

-----------------------------------------------------------------------------
(* Frame properties.                                                       *)

\* C15: the loaded table is never changed: after any sequence of runs the
\* table the loader returns and the table the run holds at its end have the
\* rows, columns and values of the file; the price categories and the rewritten
\* URLs are in derived tables only.
C15_LoadedDataUnchanged ==
    /\ \A p \in Paths : cache[p].loaded => cache[p].df = disk[p]
    /\ page.data = disk[FilePath(dashboard)]
    /\ \A k \in DOMAIN page.data :
          /\ "Price_Category" \notin DOMAIN page.data[k]
          /\ \A j \in DOMAIN page.table :
                page.table[j][UrlCol(dashboard)] # page.data[k][UrlCol(dashboard)]

\* C15 witness: app.py's plot dashboard after the property dashboard, with the
\* price categories in the exported table and the listings table shown.
C15_Witness ==
    /\ variant = App
    /\ dashboard = Plot
    /\ \A p \in Paths : cache[p].loaded
    /\ "Price_Category" \in Range(page.export[1])
    /\ page.table # <<>>
    /\ Len(page.export) > 2

-----------------------------------------------------------------------------
(* Properties of the Export Formatter.                                     *)

\* The export a run with the widget values w would offer.
ExportOf(w) ==
    Page(variant, dashboard, Data, w, Filter(variant, dashboard, Data, w)).export

\* C16: the export is one header line followed by exactly one line per row of
\* the filtered table, the rows the 'Filtered Listings' number counts, each
\* line the cells of its row; runs over the same filtered table offer the same
\* export.
C16_ExportRows ==
    ~page.halted =>
        /\ Len(page.export) = 1 + Len(filtered_data)
        /\ page.listed = Len(filtered_data)
        /\ LET header == page.export[1]
           IN /\ SubSeq(header, 1, Len(ColumnsOf(dashboard, Data))) = ColumnsOf(dashboard, Data)
              /\ \A k \in DOMAIN filtered_data : \A i \in DOMAIN ColumnsOf(dashboard, Data) :
                    page.export[k + 1][i] = CellText(Data, header[i], filtered_data[k][header[i]])
        /\ \A w2 \in Near(widgets) :
              Filter(variant, dashboard, Data, w2) = filtered_data => ExportOf(w2) = page.export

\* C16 witness: a filter that dropped rows and kept at least two, and another
\* FilterSpec that keeps the same rows.
C16_Witness ==
    /\ ~page.halted
    /\ Len(filtered_data) >= 2
    /\ Len(filtered_data) < Len(Data)
    /\ Len(page.export) = 1 + Len(filtered_data)
    /\ \E w2 \in Near(widgets) : Filter(variant, dashboard, Data, w2) = filtered_data

\* C17: the export of a zero-row filtered table is offered like any other and
\* is exactly the header line, the columns of the loaded table.
C17_EmptyExport ==
    (~page.halted /\ filtered_data = <<>>) =>
        /\ "export" \in page.steps
        /\ page.export = << ColumnsOf(dashboard, Data) >>

\* C17 witness: zero rows filtered out of a table of several rows.
C17_Witness ==
    /\ ~page.halted
    /\ filtered_data = <<>>
    /\ Len(Data) >= 2
    /\ Len(page.export) = 1

\* C18 (state part): each path was read at most once, exactly when it is in the
\* cache, and a load of the path returns what the first read returned.
C18_ReadOnce ==
    \A p \in Paths :
        /\ reads[p] <= 1
        /\ cache[p].loaded <=> reads[p] = 1
        /\ cache[p].loaded => cache[p].df = disk[p]

\* C18 (step part): no rerun and no dashboard switch reads a cached path again
\* or replaces its table, and the files do not change.
C18_NoReread ==
    /\ disk' = disk
    /\ \A p \in Paths : cache[p].loaded => cache'[p] = cache[p] /\ reads'[p] = reads[p]

\* C18: across any sequence of reruns in a session each path is read from disk
\* at most once and every later load returns the data of the first read.
C18_LoadMemoized == []C18_ReadOnce /\ [][C18_NoReread]_vars

\* C18 witness: both files loaded, back on the property dashboard, after a
\* widget change there.
C18_Witness ==
    /\ \A p \in Paths : reads[p] = 1
    /\ dashboard = Property
    /\ widgets # Defaults(variant, controls)

\* C19: the filtered table, the location summary, the comparison set and the
\* export of the last run are those of a fresh run on the loaded table with the
\* current widget values, whatever the history, and whatever order the sorts
\* give to ties.
C19_NoAccumulatedState ==
    ~page.halted =>
        /\ controls = Controls(variant, dashboard, Data)
        /\ \A t \in RunScript(variant, dashboard, Data, widgets) :
              /\ t.filtered = filtered_data
              /\ t.summary = location_summary
              /\ t.comparison = comparison_data
              /\ t.page.export = page.export

\* C19 witness: the second dashboard, two changes away from its defaults, with
\* rows filtered out and rows left.
C19_Witness ==
    /\ ~page.halted
    /\ dashboard = Plot
    /\ Changed(variant, dashboard, controls, widgets) = 2
    /\ filtered_data # <<>>
    /\ Len(filtered_data) < Len(Data)

\* The numeric filter columns of the dashboard and the bounds of their sliders.
NumericControls ==
    { <<PriceCol(dashboard), controls.price>>,
      <<AreaCol(variant, dashboard), controls.area>>,
      <<ExtraCol(dashboard), controls.extra>>,
      <<RatioCol(dashboard), controls.ratio>> }
    \cup { <<plot_distance_columns[i], controls.distance[i]>> : i \in DOMAIN controls.distance }

\* C20: when a numeric filter column holds a single value v, its slider is the
\* fixed point lo = hi = v and the interval keeps the rows of value v.
C20_DegenerateRange ==
    ~page.halted =>
        \A c \in NumericControls :
            Cardinality(Options(Data, c[1])) = 1 =>
                LET v == Data[1][c[1]]
                IN c[2] = <<v, v>> /\ InRange(v, c[2])

-----------------------------------------------------------------------------
(* Properties of the range controls.                                       *)

\* The intervals the widgets hand to the filter.
Intervals ==
    { widgets.selected_price, widgets.selected_area, widgets.selected_extra,
      widgets.selected_ratio }
    \cup Range(widgets.distance_filters)

\* C21: for every loaded table and every reachable widget state, every numeric
\* interval handed to the filter has lo <= hi and lies within the bounds of its
\* slider; the ratio slider's bounds are 0.0 and round(column maximum, 2).
C21_IntervalsOrdered ==
    ~page.halted =>
        /\ \A r \in Intervals : r[1] <= r[2]
        /\ \A c \in NumericControls : c[2][1] <= c[2][2]
        /\ controls.ratio = <<0, Round2(ColMax(Data, RatioCol(dashboard)))>>
        /\ controls.ratio[1] <= widgets.selected_ratio[1]
        /\ widgets.selected_ratio[2] <= controls.ratio[2]

\* C21 witness: both handles of the ratio slider moved inwards, on a table
\* whose ratio minimum is above 0.0 and whose ratio maximum is changed by the
\* rounding to two decimals.
C21_Witness ==
    /\ ~page.halted
    /\ widgets.selected_ratio[1] > controls.ratio[1]
    /\ widgets.selected_ratio[2] < controls.ratio[2]
    /\ ColMin(Data, RatioCol(dashboard)) > 0
    /\ controls.ratio[2] # ColMax(Data, RatioCol(dashboard))

\* C22: with every control at its default value the filtered table is the whole
\* loaded table, in both dashboards of both variants.
C22_DefaultsKeepAll ==
    (~page.halted /\ widgets = Defaults(variant, controls)) => filtered_data = Data

-----------------------------------------------------------------------------
(* Properties of the comparison set and the location summary.              *)

\* C23: in app.py the comparison set is the whole location summary of the
\* filtered rows: the selected subset already holds every group of the summary,
\* and the top five and bottom five add no group to it.
C23_ComparisonIsSummary ==
    variant = App =>
        /\ comparison_data = location_summary
        /\ selected_data = location_summary
        /\ Range(top_regions) \subseteq Range(selected_data)
        /\ Range(bottom_regions) \subseteq Range(selected_data)

\* C23 witness: app.py, some but not all locations selected, a summary of at
\* least two groups that has fewer groups than the loaded table has locations.
C23_Witness ==
    /\ variant = App
    /\ ~page.halted
    /\ widgets.selected_locations # {}
    /\ widgets.selected_locations # controls.locations
    /\ Len(location_summary) >= 2
    /\ Len(location_summary) < Cardinality(Options(Data, LocCol(dashboard)))
    /\ top_regions # <<>>

-----------------------------------------------------------------------------
(* Properties of the exported columns.                                     *)

\* C24: in every dashboard and for every filter state the header line of the
\* exported CSV is the columns of the loaded table in their original order, and
\* every exported line has one cell per loaded column.
C24_ExportColumnsAreLoaded ==
    ~page.halted =>
        /\ page.export[1] = ColumnsOf(dashboard, Data)
        /\ \A k \in DOMAIN page.export : Len(page.export[k]) = Len(ColumnsOf(dashboard, Data))

\* The counts of a summary, added up.
RECURSIVE SumCounts(_)
SumCounts(summary) ==
    IF summary = <<>> THEN 0 ELSE Count(Head(summary)) + SumCounts(Tail(summary))

\* C25: the location summary has exactly one row per distinct location of the
\* filtered rows and none for a location without filtered rows; each row's
\* count is the number of filtered rows of its location, and the counts add up
\* to the 'Filtered Listings' / 'Filtered Plots' number of the sidebar.
C25_OneRowPerLocation ==
    ~page.halted =>
        /\ DistinctKeys(location_summary)
        /\ \A l \in Range(LocNames) :
              (\E i \in DOMAIN location_summary : location_summary[i][LocCol(dashboard)] = l)
                  <=> GroupCount(filtered_data, l) > 0
        /\ \A i \in DOMAIN location_summary :
              Count(location_summary[i])
                  = GroupCount(filtered_data, location_summary[i][LocCol(dashboard)])
        /\ SumCounts(location_summary) = page.listed
        /\ page.listed = Len(filtered_data)

\* C25 witness: a filter that removed every row of one location and some but
\* not all rows of another.
C25_Witness ==
    /\ ~page.halted
    /\ \E l \in Range(Keys(Data)) : GroupCount(filtered_data, l) = 0
    /\ \E l \in Range(Keys(Data)) : 0 < GroupCount(filtered_data, l)
                                    /\ GroupCount(filtered_data, l) < GroupCount(Data, l)
    /\ Len(location_summary) >= 1
    /\ SumCounts(location_summary) = Len(filtered_data)

-----------------------------------------------------------------------------
(* Properties of the price categories of the map.                          *)

\* C26: in the plot dashboard of app.py, whenever the filtered table is not
\* empty, the price-per-cent bin edges are strictly increasing, there is one
\* label per pair of neighbouring edges, and every filtered row is assigned one
\* of the labels as its Price_Category.
C26_EveryRowCategorised ==
    (variant = App /\ dashboard = Plot /\ ~page.halted /\ filtered_data # <<>>) =>
        LET bins   == price_bins(filtered_data)
            labels == price_labels(bins)
            table  == MapSection(variant, dashboard, filtered_data).table
        IN /\ \A i \in 1..(Len(bins) - 1) : bins[i] < bins[i + 1]
           /\ Len(labels) = Len(bins) - 1
           /\ \A k \in DOMAIN table :
                 /\ "Price_Category" \in DOMAIN table[k]
                 /\ table[k].Price_Category \in Range(labels)

-----------------------------------------------------------------------------
(* Properties of the price-per-cent ratios.                                *)

\* C27: in app.py the overall 'Average Price per Cent' is sum(price) /
\* sum(area) of the filtered rows when the total area is not 0 and 0 when it
\* is, and the per-group ratio of the location summary is likewise a finite
\* number, 0 for a group whose area sum is 0.
C27_RatiosGuarded ==
    (variant = App /\ ~page.halted) =>
        LET price == Sum(filtered_data, PriceCol(dashboard))
            area  == Sum(filtered_data, AreaCol(App, dashboard))
        IN /\ page.kpis.Average_Price_per_Cent
                  = (IF area # 0 THEN Div(price, area) ELSE [num |-> 0, den |-> 1])
           /\ page.kpis.Average_Price_per_Cent.den # 0
           /\ \A i \in DOMAIN location_summary :
                 LET s == location_summary[i]
                 IN /\ s.Average_Price_per_Cent.den # 0
                    /\ s.Sum_Area = 0 => s.Average_Price_per_Cent = [num |-> 0, den |-> 1]

-----------------------------------------------------------------------------
(* Properties of the listings table.                                       *)

\* The position of column c in the header line of the export.
ExportIndex(c) == CHOOSE i \in DOMAIN page.export[1] : page.export[1][i] = c

\* C28: in app.py the listings table is rendered exactly when the location
\* selection is not empty.  With an empty selection the prompt to select a
\* location takes its place while the filter, the KPIs and the export cover
\* all locations; a rendered table has one line per filtered row, in the order
\* of the exported lines, with the display columns of that row and its URL
\* turned into a link.
C28_TableIffSelection ==
    (variant = App /\ ~page.halted) =>
        LET all == [widgets EXCEPT !.selected_locations = controls.locations]
            everywhere == Filter(variant, dashboard, Data, all)
            url == UrlCol(dashboard)
        IN /\ SelectPrompt \notin page.messages <=> widgets.selected_locations # {}
           /\ widgets.selected_locations = {} =>
                 /\ page.table = <<>>
                 /\ filtered_data = everywhere
                 /\ page.listed = Len(everywhere)
                 /\ page.kpis = KPIs(variant, dashboard, everywhere)
                 /\ Len(page.export) = 1 + Len(everywhere)
           /\ widgets.selected_locations # {} =>
                 /\ Len(page.table) = Len(filtered_data)
                 /\ Len(page.export) = 1 + Len(page.table)
                 /\ \A k \in DOMAIN page.table :
                       /\ DOMAIN page.table[k] = Range(display_columns(variant, dashboard))
                       /\ \A c \in DOMAIN page.table[k] \ {url} :
                             page.table[k][c] = filtered_data[k][c]
                       /\ page.table[k][url] = make_clickable(filtered_data[k][url])
                       /\ page.export[k + 1][ExportIndex(url)]
                              = CellText(Data, url, filtered_data[k][url])

\* C28 witness: app.py with a location selected and a table of two or more
\* rows, fewer than the loaded table has.
C28_Witness ==
    /\ variant = App
    /\ ~page.halted
    /\ widgets.selected_locations # {}
    /\ SelectPrompt \notin page.messages
    /\ Len(page.table) >= 2
    /\ Len(page.table) < Len(Data)
    /\ Len(page.export) = 1 + Len(page.table)

====
